---------------------------- MODULE Spec2Model ----------------------------
(***************************************************************************)
(* access-mini (src/src/index.ts): a registry of permission definitions    *)
(* and the three ways of dispatching to a handler:                         *)
(*    can(resource, action, ctx)                 single-action shape       *)
(*    can(resource, ctx)[action]()               batch shape               *)
(*    get(resource).can(actor)[action](entity, attributes)   builder       *)
(* JavaScript values are tagged records, handlers are named by the test    *)
(* or document they come from, and a call is an operator that yields the   *)
(* completion of the call, the handler invocations it made and the         *)
(* promises those invocations created.                                     *)
(***************************************************************************)
EXTENDS Integers, Sequences, FiniteSets, TLC

VARIABLES initialDefs, defs, last, held, promises, setting

vars == <<initialDefs, defs, last, held, promises, setting>>

(***************************************************************************)
(* Bounds                                                                  *)
(***************************************************************************)
MaxPromises == 1

MaxDefs == 3

(***************************************************************************)
(* JavaScript values                                                       *)
(***************************************************************************)
Undefined == [type |-> "undefined"]

Null == [type |-> "null"]

Str(s) == [type |-> "string", val |-> s]

Num(n) == [type |-> "number", val |-> n]

Bool(b) == [type |-> "boolean", val |-> b]

True == Bool("true")

False == Bool("false")

Obj(p) == [type |-> "object", props |-> p]

Promise(n) == [type |-> "promise", id |-> n]

Arr(s) == [type |-> "array", items |-> s]

NoProps == [k \in {} |-> Undefined]

typeof(v) == IF v.type \in {"null", "array", "promise", "accessor", "invoker", "actionObject"}
             THEN "object" ELSE v.type

\* e1 === e2 on the values of the model: primitives by value, and the
\* objects of the model are compared by their contents.
StrictEq(a, b) == a = b

(***************************************************************************)
(* Completions: a call either returns a value or throws one.               *)
(***************************************************************************)
Return(v) == [kind |-> "return", value |-> v]

Throw(e) == [kind |-> "throw", value |-> e]

Error(parts) == [type |-> "Error", message |-> parts]

TypeError == [type |-> "TypeError", message |-> <<"TypeError">>]

\* v.f for a property read: a TypeError on undefined and null, undefined for
\* a property the value does not have.
CanRead(v) == v.type \notin {"undefined", "null"}

Prop(v, f) == IF v.type = "object" /\ f \in DOMAIN v.props THEN v.props[f] ELSE Undefined

\* v?.f
OptProp(v, f) == IF CanRead(v) THEN Prop(v, f) ELSE Undefined


BoolOf(b) == IF b THEN True ELSE False

(***************************************************************************)
(* Handlers.  A handler is named; HandlerBody is what running its body on  *)
(* the argument object gives.  A parameter pattern ({ actor }) => ... reads *)
(* the properties of its argument, so it throws on undefined and null.     *)
(***************************************************************************)
\* create: ({ actor }) => actor.role === "admin"
roleIsAdmin(args) ==
    IF ~CanRead(args) \/ ~CanRead(Prop(args, "actor")) THEN Throw(TypeError)
    ELSE Return(BoolOf(StrictEq(Prop(Prop(args, "actor"), "role"), Str("admin"))))

\* edit: ({ actor, entity }) => actor.role === "admin" || actor.id === entity.authorId
adminOrAuthor(args) ==
    IF ~CanRead(args) \/ ~CanRead(Prop(args, "actor")) THEN Throw(TypeError)
    ELSE IF StrictEq(Prop(Prop(args, "actor"), "role"), Str("admin")) THEN Return(True)
    ELSE IF ~CanRead(Prop(args, "entity")) THEN Throw(TypeError)
    ELSE Return(BoolOf(StrictEq(Prop(Prop(args, "actor"), "id"),
                                Prop(Prop(args, "entity"), "authorId"))))

\* withOptionals: ({ actor, entity, attributes }) =>
\*   actor.id === "admin" || entity?.name === "public" || attributes?.flag === true
withOptionals(args) ==
    IF ~CanRead(args) \/ ~CanRead(Prop(args, "actor")) THEN Throw(TypeError)
    ELSE Return(BoolOf(\/ StrictEq(Prop(Prop(args, "actor"), "id"), Str("admin"))
                       \/ StrictEq(OptProp(Prop(args, "entity"), "name"), Str("public"))
                       \/ StrictEq(OptProp(Prop(args, "attributes"), "flag"), True)))

\* create: ({ actor }) => actor.role !== "banned"
roleNotBanned(args) ==
    IF ~CanRead(args) \/ ~CanRead(Prop(args, "actor")) THEN Throw(TypeError)
    ELSE Return(BoolOf(~StrictEq(Prop(Prop(args, "actor"), "role"), Str("banned"))))

\* Object.prototype.toString.call(handlers, ctx)
ObjectToString(args) == Return(Str("[object Object]"))

\* Object.prototype.constructor, that is Object(ctx): an object is returned
\* as it is, null and undefined give a new empty object, a primitive is boxed.
ObjectConstructor(args) ==
    IF args.type = "object" THEN Return(args)
    ELSE IF ~CanRead(args) THEN Return(Obj(NoProps))
    ELSE Return([type |-> "object", props |-> NoProps, primitive |-> args])

AsyncHandlers == {"asyncRoleIsAdmin"}

HandlerBody(h, args) ==
    CASE h = "roleIsAdmin" -> roleIsAdmin(args)
      [] h = "asyncRoleIsAdmin" -> roleIsAdmin(args)
      [] h = "adminOrAuthor" -> adminOrAuthor(args)
      [] h = "withOptionals" -> withOptionals(args)
      [] h = "returnsUndefined" -> Return(Undefined)
      [] h = "returnsNull" -> Return(Null)
      [] h = "returnsZero" -> Return(Num("0"))
      [] h = "returnsEmptyString" -> Return(Str(""))
      [] h = "returnsObject" -> Return(Obj([result |-> True]))
      [] h = "roleNotBanned" -> roleNotBanned(args)
      [] h = "returnsTrue" -> Return(True)
      [] h = "readsSetting" -> Return(setting)
      [] h = "Object.prototype.toString" -> ObjectToString(args)
      [] h = "Object" -> ObjectConstructor(args)

\* One invocation h(args).  An async function never throws: it returns a
\* promise, pending when the call returns, that later settles to what the
\* body gives.  nid is the identity of the promise it would create.
Invocation(h, args, nid) ==
    IF h \in AsyncHandlers
    THEN [handler |-> h, args |-> args, completion |-> Return(Promise(nid)),
          spawned |-> {[id |-> nid, state |-> "pending", settle |-> HandlerBody(h, args)]}]
    ELSE [handler |-> h, args |-> args, completion |-> HandlerBody(h, args),
          spawned |-> {}]

\* The outcome of a call into the library: its completion, the handler
\* invocations it made, in order, and the promises they created.
Outcome(c, inv) ==
    [completion |-> c, invoked |-> inv,
     spawned |-> UNION {inv[i].spawned : i \in DOMAIN inv}]

Invoke(h, args, nid) ==
    LET i == Invocation(h, args, nid) IN Outcome(i.completion, <<i>>)

(***************************************************************************)
(* Handler mappings as JavaScript objects                                  *)
(***************************************************************************)
\* The properties every object inherits from Object.prototype.
ObjectPrototype == [toString |-> "Object.prototype.toString", constructor |-> "Object"]

\* Object.keys(handlers): the own enumerable property names.
ObjectKeys(handlers) == DOMAIN handlers

\* action in handlers: own and inherited properties.
In(action, handlers) == action \in DOMAIN handlers \/ action \in DOMAIN ObjectPrototype

\* handlers[action]
Lookup(handlers, action) ==
    IF action \in DOMAIN handlers THEN handlers[action]
    ELSE IF action \in DOMAIN ObjectPrototype THEN ObjectPrototype[action]
    ELSE "undefined"

\* The call with its result turned into a boolean (!!).
CallHandlerCoerced(handlers, action, args, nid) ==
    LET o == Invoke(Lookup(handlers, action), args, nid)
    IN IF o.completion.kind = "return"
       THEN [o EXCEPT !.completion = Return(BoolOf(o.completion.value
                                                    \notin {Undefined, Null, Num("0"), Str(""), False}))]
       ELSE o

\* The call with the library waiting for the promise before it returns.
CallHandlerAwaited(handlers, action, args, nid) ==
    LET o == Invoke(Lookup(handlers, action), args, nid)
    IN [o EXCEPT !.spawned = {[p EXCEPT !.state = "settled"] : p \in @}]

\* The call inside try/catch: a handler that throws, or whose promise
\* rejects, gives false.
CallHandlerCatches(handlers, action, args, nid) ==
    LET o == Invoke(Lookup(handlers, action), args, nid)
    IN IF o.completion.kind = "throw" THEN [o EXCEPT !.completion = Return(False)]
       ELSE [o EXCEPT !.spawned =
                {[p EXCEPT !.settle = IF @.kind = "throw" THEN Return(False) ELSE @] : p \in @}]

\* The call handing out the promise of a dispatch still in flight instead
\* of the one the handler has just made.
CallHandlerSharesPromise(handlers, action, args, nid) ==
    LET o == Invoke(Lookup(handlers, action), args, nid)
    IN IF nid > 1 /\ o.spawned # {}
       THEN [completion |-> Return(Promise(1)), invoked |-> o.invoked, spawned |-> {}]
       ELSE o

\* The call with a cache of one decision: when the call before was made for
\* the same handler and arguments, its result is given and the handler is
\* not called.
CallHandlerCached(handlers, action, args, nid) ==
    IF /\ Len(last.invoked) = 1
       /\ last.invoked[1].handler = Lookup(handlers, action)
       /\ last.invoked[1].args = args
    THEN Outcome(last.completion, <<>>)
    ELSE Invoke(Lookup(handlers, action), args, nid)

\* handlers[action](args): calling a property that is not a function throws.
CallHandler(handlers, action, args, nid) ==
    IF Lookup(handlers, action) = "undefined" THEN Outcome(Throw(TypeError), <<>>)
    ELSE Invoke(Lookup(handlers, action), args, nid)

(***************************************************************************)
(* createPermissionDefinition and createPermissions                        *)
(***************************************************************************)
\* createPermissionDefinition giving an empty handler mapping a default action.
createPermissionDefinitionDefault(resource, handlers) ==
    [resource |-> resource,
     handlers |-> IF DOMAIN handlers = {} THEN [read |-> "returnsTrue"] ELSE handlers]

createPermissionDefinition(resource, handlers) ==
    [resource |-> resource, handlers |-> handlers]

EmptyMap == [k \in {} |-> Undefined]

MapSet(m, k, v) == [x \in DOMAIN m \cup {k} |-> IF x = k THEN v ELSE m[x]]

MapHas(m, k) == k \in DOMAIN m

\* The loop keeping the first definition of a resource name.
RECURSIVE SetAllKeepFirst(_, _, _)
SetAllKeepFirst(m, items, i) ==
    IF i > Len(items) THEN m
    ELSE SetAllKeepFirst(IF MapHas(m, items[i].resource) THEN m
                         ELSE MapSet(m, items[i].resource, items[i]), items, i + 1)

RECURSIVE SetAll(_, _, _)
SetAll(m, items, i) ==
    IF i > Len(items) THEN m
    ELSE SetAll(MapSet(m, items[i].resource, items[i]), items, i + 1)

\* The registry with one handler table for all resources: the handler of an
\* action name is the one of the last definition of the list that declares
\* that name, whichever resource it is of.
createPermissionsByAction(initial) ==
    LET items == IF initial.type = "undefined" THEN <<>> ELSE initial.items
        reg == SetAll(EmptyMap, items, 1)
        lastOf(a) ==
            LET i == CHOOSE j \in DOMAIN items :
                        /\ a \in DOMAIN items[j].handlers
                        /\ \A k \in DOMAIN items : k > j => a \notin DOMAIN items[k].handlers
            IN items[i].handlers[a]
    IN [r \in DOMAIN reg |->
          [resource |-> r, handlers |-> [a \in DOMAIN reg[r].handlers |-> lastOf(a)]]]

\* createPermissions with a definition of its own when it is given no list.
createPermissionsDefault(initial) ==
    IF initial.type = "undefined"
    THEN MapSet(EmptyMap, "default", createPermissionDefinition("default", EmptyMap))
    ELSE SetAll(EmptyMap, initial.items, 1)

\* createPermissions filling one Map that all permissions objects share:
\* the registry of a new object starts from the one made last.
createPermissionsShared(initial) ==
    SetAll(IF defs = <<>> THEN EmptyMap ELSE defs[Len(defs)],
           IF initial.type = "undefined" THEN <<>> ELSE initial.items, 1)

\* The registry createPermissions builds from its argument.
createPermissions(initial) ==
    IF initial.type = "undefined" THEN EmptyMap
    ELSE SetAll(EmptyMap, initial.items, 1)

UnknownResource(resource) ==
    Error(<<"No permission definition for resource: ", resource>>)

UnknownAction(action, resource) ==
    Error(<<"No handler for action '", action, "' on resource '", resource, "'">>)

(***************************************************************************)
(* get(resource), the accessor can(actor) and the invoker's methods        *)
(***************************************************************************)
\* get delivering its error in a rejected promise instead of throwing it.
getRejects(d, resource) ==
    IF ~MapHas(d, resource)
    THEN [completion |-> Return(Promise(1)), invoked |-> <<>>,
          spawned |-> {[id |-> 1, state |-> "pending",
                        settle |-> Throw(UnknownResource(resource))]}]
    ELSE Outcome(Return([type |-> "accessor", def |-> d[resource]]), <<>>)

\* get without its throw: an unknown resource gives undefined.
getNoThrow(d, resource) ==
    IF ~MapHas(d, resource) THEN Outcome(Return(Undefined), <<>>)
    ELSE Outcome(Return([type |-> "accessor", def |-> d[resource]]), <<>>)

get(d, resource) ==
    IF ~MapHas(d, resource) THEN Outcome(Throw(UnknownResource(resource)), <<>>)
    ELSE Outcome(Return([type |-> "accessor", def |-> d[resource]]), <<>>)

\* The invoker built from every property name of the handlers, own and
\* inherited, instead of Object.keys.
accessorCanInherited(accessor, actor) ==
    Outcome(Return([type |-> "invoker",
                    fns |-> [action \in DOMAIN accessor.def.handlers \cup DOMAIN ObjectPrototype |->
                               [def |-> accessor.def, action |-> action, actor |-> actor]]]),
            <<>>)

accessorCan(accessor, actor) ==
    Outcome(Return([type |-> "invoker",
                    fns |-> [action \in ObjectKeys(accessor.def.handlers) |->
                               [def |-> accessor.def, action |-> action, actor |-> actor]]]),
            <<>>)

\* The invoker's method with the actor in a variable that all invokers
\* share: a method called right after can(actor) was called for another
\* invoker passes the actor of that call.
invokerMethodLatestActor(fn, entity, attributes, nid) ==
    CallHandler(fn.def.handlers, fn.action,
                Obj([actor |-> IF last.op = "get.can" /\ last.completion.kind = "return"
                               THEN last.input.actor ELSE fn.actor,
                     entity |-> entity, attributes |-> attributes]), nid)

\* The invoker's method refusing a call that leaves the entity out.
invokerMethodRequired(fn, entity, attributes, nid) ==
    IF entity = Undefined THEN Outcome(Throw(Error(<<"Missing entity">>)), <<>>)
    ELSE CallHandler(fn.def.handlers, fn.action,
                     Obj([actor |-> fn.actor, entity |-> entity, attributes |-> attributes]), nid)

\* The invoker's method forwarding the actor and the entity only.
invokerMethodNoAttributes(fn, entity, attributes, nid) ==
    CallHandler(fn.def.handlers, fn.action,
                Obj([actor |-> fn.actor, entity |-> entity, attributes |-> Undefined]), nid)

invokerMethod(fn, entity, attributes, nid) ==
    CallHandler(fn.def.handlers, fn.action,
                Obj([actor |-> fn.actor, entity |-> entity, attributes |-> attributes]), nid)

(***************************************************************************)
(* can(resource, actionOrCtx, ctx) and the functions of the action object  *)
(***************************************************************************)
\* ToBoolean(v): a value taken as a condition.
Truthy(v) == v \notin {Undefined, Null, Num("0"), Str(""), False}

\* The shape test with the third argument tested for truthiness.
IsSingleActionTruthy(actionOrCtx, ctx) == typeof(actionOrCtx) = "string" /\ Truthy(ctx)

\* The shape test on the type of the second argument alone.
IsSingleActionByType(actionOrCtx, ctx) == typeof(actionOrCtx) = "string"

\* typeof actionOrCtx === "string" && ctx !== undefined
IsSingleAction(actionOrCtx, ctx) == typeof(actionOrCtx) = "string" /\ ctx # Undefined

\* can with a batch shape that calls a handler while it builds the action
\* object, instead of leaving every call to the functions it returns.
canEager(d, resource, actionOrCtx, ctx, nid) ==
    IF ~MapHas(d, resource) THEN Outcome(Throw(UnknownResource(resource)), <<>>)
    ELSE IF IsSingleAction(actionOrCtx, ctx)
    THEN IF ~In(actionOrCtx.val, d[resource].handlers)
         THEN Outcome(Throw(UnknownAction(actionOrCtx.val, resource)), <<>>)
         ELSE CallHandler(d[resource].handlers, actionOrCtx.val, ctx, nid)
    ELSE LET keys == ObjectKeys(d[resource].handlers)
             first == CHOOSE a \in keys : TRUE
         IN Outcome(Return([type |-> "actionObject",
                            fns |-> [action \in keys |->
                                       [def |-> d[resource], action |-> action,
                                        ctx |-> actionOrCtx]]]),
                    IF keys = {} THEN <<>>
                    ELSE <<Invocation(d[resource].handlers[first], actionOrCtx, nid)>>)

\* can looking for the action, in the handlers of every definition, before
\* it looks for the resource.
canActionFirst(d, resource, actionOrCtx, ctx, nid) ==
    IF /\ IsSingleAction(actionOrCtx, ctx)
       /\ \A r \in DOMAIN d : ~In(actionOrCtx.val, d[r].handlers)
    THEN Outcome(Throw(UnknownAction(actionOrCtx.val, resource)), <<>>)
    ELSE IF ~MapHas(d, resource) THEN Outcome(Throw(UnknownResource(resource)), <<>>)
    ELSE IF IsSingleAction(actionOrCtx, ctx)
    THEN IF ~In(actionOrCtx.val, d[resource].handlers)
         THEN Outcome(Throw(UnknownAction(actionOrCtx.val, resource)), <<>>)
         ELSE CallHandler(d[resource].handlers, actionOrCtx.val, ctx, nid)
    ELSE Outcome(Return([type |-> "actionObject",
                         fns |-> [action \in ObjectKeys(d[resource].handlers) |->
                                    [def |-> d[resource], action |-> action,
                                     ctx |-> actionOrCtx]]]),
                 <<>>)

\* can building the handler's argument anew from the three fields of ctx
\* instead of passing ctx on.
canRebuildsCtx(d, resource, actionOrCtx, ctx, nid) ==
    IF ~MapHas(d, resource) THEN Outcome(Throw(UnknownResource(resource)), <<>>)
    ELSE IF IsSingleAction(actionOrCtx, ctx)
    THEN IF ~In(actionOrCtx.val, d[resource].handlers)
         THEN Outcome(Throw(UnknownAction(actionOrCtx.val, resource)), <<>>)
         ELSE IF ~CanRead(ctx) THEN Outcome(Throw(TypeError), <<>>)
         ELSE CallHandler(d[resource].handlers, actionOrCtx.val,
                          Obj([actor |-> Prop(ctx, "actor"), entity |-> Prop(ctx, "entity"),
                               attributes |-> Prop(ctx, "attributes")]), nid)
    ELSE Outcome(Return([type |-> "actionObject",
                         fns |-> [action \in ObjectKeys(d[resource].handlers) |->
                                    [def |-> d[resource], action |-> action,
                                     ctx |-> actionOrCtx]]]),
                 <<>>)

can(d, resource, actionOrCtx, ctx, nid) ==
    IF ~MapHas(d, resource) THEN Outcome(Throw(UnknownResource(resource)), <<>>)
    ELSE IF IsSingleAction(actionOrCtx, ctx)
    THEN IF ~In(actionOrCtx.val, d[resource].handlers)
         THEN Outcome(Throw(UnknownAction(actionOrCtx.val, resource)), <<>>)
         ELSE CallHandler(d[resource].handlers, actionOrCtx.val, ctx, nid)
    ELSE Outcome(Return([type |-> "actionObject",
                         fns |-> [action \in ObjectKeys(d[resource].handlers) |->
                                    [def |-> d[resource], action |-> action,
                                     ctx |-> actionOrCtx]]]),
                 <<>>)

\* The function of the action object calling the handler without the context.
actionFnNoCtx(fn, nid) == CallHandler(fn.def.handlers, fn.action, Undefined, nid)

actionFn(fn, nid) == CallHandler(fn.def.handlers, fn.action, fn.ctx, nid)


(***************************************************************************)
(* The definitions, registries and arguments the caller draws from         *)
(***************************************************************************)
postDef ==
    createPermissionDefinition("post", [create |-> "roleIsAdmin", edit |-> "adminOrAuthor"])

\* A second definition of "post": another handler for edit, no create.
asyncDef ==
    createPermissionDefinition("post", [edit |-> "asyncRoleIsAdmin", publish |-> "withOptionals"])

edgeCaseDef ==
    createPermissionDefinition("edge-returns",
        [returnsUndefined |-> "returnsUndefined", returnsNull |-> "returnsNull",
         returnsZero |-> "returnsZero", returnsEmptyString |-> "returnsEmptyString",
         returnsObject |-> "returnsObject"])

\* A resource that declares create as "post" does, with a handler of its own.
commentDef ==
    createPermissionDefinition("comment", [create |-> "roleNotBanned", read |-> "returnsTrue"])

Definitions == {postDef, asyncDef, edgeCaseDef, commentDef}

\* The lists of at most n definitions.
SeqsUpTo(S, n) == UNION {[1..k -> S] : k \in 0..n}

\* What createPermissions is called with: nothing, the empty list, one
\* definition, two resources, two resources that declare the same action
\* name, and lists that name "post" more than once.
InitialLists ==
    {Undefined, Arr(<<>>), Arr(<<postDef>>), Arr(<<asyncDef>>), Arr(<<postDef, edgeCaseDef>>),
     Arr(<<postDef, commentDef>>), Arr(<<postDef, asyncDef>>), Arr(<<asyncDef, postDef>>),
     Arr(<<postDef, edgeCaseDef, asyncDef, postDef>>)}

Resources == {"post", "edge-returns", "comment"}

admin == Obj([id |-> Str("1"), role |-> Str("admin")])

user == Obj([id |-> Str("2"), role |-> Str("user")])

post == Obj([authorId |-> Str("2")])

Actors == {admin, user}

\* The entity and attributes a caller passes together.
Extras == {<<Undefined, Undefined>>, <<post, Undefined>>, <<post, Obj([flag |-> True])>>}

Contexts ==
    {Obj([actor |-> a]) : a \in Actors}
    \cup {Obj([actor |-> a, entity |-> x[1], attributes |-> x[2]]) : a \in Actors, x \in Extras}

ActionNames ==
    {"create", "edit", "publish", "returnsUndefined", "returnsNull", "returnsZero",
     "returnsEmptyString", "returnsObject", "read", "nonexistent", "toString", "constructor"}

\* What a caller may pass as second argument of can: a context or a string.
SecondArgs == Contexts \cup {Str(a) : a \in ActionNames}

\* What a caller may pass as third argument: nothing, a defined falsy
\* value, or a context.
Falsy == {Null, Num("0"), Str(""), False}

ThirdArgs == {Undefined} \cup Falsy \cup Contexts

\* The three-argument calls the caller makes, as <<actionOrCtx, ctx>>: every
\* action name with a context, some names with each defined falsy value, and
\* a context in second place.
Calls3 ==
    ({Str(a) : a \in ActionNames}
        \X {Obj([actor |-> a, entity |-> post, attributes |-> Undefined]) : a \in Actors})
    \cup ({Str("create"), Str("edit"), Str("returnsZero"), Str("nonexistent")} \X Falsy)
    \cup ({Obj([actor |-> admin])} \X {Null, Obj([actor |-> user])})

(***************************************************************************)
(* State                                                                   *)
(*   initialDefs  the argument createPermissions was called with           *)
(*   defs         the Map it built                                         *)
(*   last         the latest call of the caller and its outcome            *)
(*   held         the accessor, invoker or action object the caller keeps  *)
(*   promises     the promises created by async handlers, by identity      *)
(*   setting      a value outside the library that a handler reads         *)
(***************************************************************************)
NoInput == [k \in {} |-> Undefined]

\* const api = { get, can }: the object createPermissions returns, by the
\* names of its properties.
api == [type |-> "permissions", methods |-> {"get", "can"}]

\* The names a caller may try on the permissions object besides get and can.
OtherMethods == {"add", "remove"}

\* The resource names and handler mappings a caller defines definitions of.
LongName == "aaaaaaaaaaaaaaaaaaaaaaaaaaaaaaaaaaaaaaaaaaaaaaaaaaaaaaaaaaaaaaaaaaaaaaaaaaaaaaaaaaaaaaaaaaaaaaaaaaaa"

DefinitionNames == {"post", "special-resource_name.123", LongName, ""}

HandlerMappings == {EmptyMap, [create |-> "roleIsAdmin"], [action |-> "returnsTrue"]}

Record(op, input, out) ==
    [op |-> op, input |-> input, completion |-> out.completion, invoked |-> out.invoked]

\* What the caller keeps: the object and the arguments it was obtained with.
Nothing == [value |-> Undefined, from |-> NoInput]

Init ==
    /\ initialDefs \in InitialLists
    /\ defs = createPermissions(initialDefs)
    /\ last = Record("createPermissions", NoInput, Outcome(Return(api), <<>>))
    /\ held = Nothing
    /\ promises = EmptyMap
    /\ setting = False

\* The identity the next promise gets.
NextId == CHOOSE n \in 1..(MaxPromises + 1) : n \notin DOMAIN promises

\* The effects of a call with get registering an empty definition for a
\* name it did not find.
CompleteRegisters(op, input, out) ==
    /\ \A p \in out.spawned : p.id <= MaxPromises
    /\ last' = Record(op, input, out)
    /\ held' = IF op \in {"invoker.method", "actions.fn"} THEN held
               ELSE IF /\ out.completion.kind = "return"
                       /\ out.completion.value.type \in {"accessor", "invoker", "actionObject"}
               THEN [value |-> out.completion.value, from |-> input] ELSE Nothing
    /\ promises' = [n \in DOMAIN promises \cup {p.id : p \in out.spawned} |->
                      IF n \in DOMAIN promises THEN promises[n]
                      ELSE LET p == CHOOSE q \in out.spawned : q.id = n
                           IN [state |-> p.state, settle |-> p.settle]]
    /\ defs' = IF op = "get" /\ out.completion.kind = "throw"
               THEN MapSet(defs, input.resource,
                           createPermissionDefinition(input.resource, EmptyMap))
               ELSE defs
    /\ UNCHANGED <<initialDefs, setting>>

\* The effects of a call on the caller's side: the outcome is recorded, the
\* promises the handlers created exist from now on, and the caller keeps the
\* accessor, invoker or action object its latest call of get, can or an
\* accessor returned, for as long as it calls the functions of that object.
Complete(op, input, out) ==
    /\ \A p \in out.spawned : p.id <= MaxPromises
    /\ last' = Record(op, input, out)
    /\ held' = IF op \in {"invoker.method", "actions.fn"} THEN held
               ELSE IF /\ out.completion.kind = "return"
                       /\ out.completion.value.type \in {"accessor", "invoker", "actionObject"}
               THEN [value |-> out.completion.value, from |-> input] ELSE Nothing
    /\ promises' = [n \in DOMAIN promises \cup {p.id : p \in out.spawned} |->
                      IF n \in DOMAIN promises THEN promises[n]
                      ELSE LET p == CHOOSE q \in out.spawned : q.id = n
                           IN [state |-> p.state, settle |-> p.settle]]
    /\ UNCHANGED <<initialDefs, defs, setting>>

\* permissions.get(resource)
CallGet(resource) ==
    /\ resource \in Resources
    /\ Complete("get", [resource |-> resource], get(defs, resource))

\* permissions.get(resource).can(actor), on the accessor the caller keeps
CallAccessorCan(actor) ==
    /\ held.value.type = "accessor"
    /\ Complete("get.can", [resource |-> held.from.resource, actor |-> actor],
                accessorCan(held.value, actor))

\* invoker[action](entity, attributes), on the invoker the caller keeps
CallInvokerMethod(action, entity, attributes) ==
    /\ held.value.type = "invoker"
    /\ action \in DOMAIN held.value.fns
    /\ Complete("invoker.method",
                [resource |-> held.from.resource, actor |-> held.from.actor,
                 action |-> action, entity |-> entity, attributes |-> attributes],
                invokerMethod(held.value.fns[action], entity, attributes, NextId))

\* permissions.can(resource, actionOrCtx): the third argument is not given
CallCan2(resource, actionOrCtx) ==
    /\ actionOrCtx \in SecondArgs
    /\ Complete("can", [resource |-> resource, actionOrCtx |-> actionOrCtx, ctx |-> Undefined],
                can(defs, resource, actionOrCtx, Undefined, NextId))

\* permissions.can(resource, actionOrCtx, ctx)
CallCan3(resource, actionOrCtx, ctx) ==
    /\ ctx # Undefined
    /\ Complete("can", [resource |-> resource, actionOrCtx |-> actionOrCtx, ctx |-> ctx],
                can(defs, resource, actionOrCtx, ctx, NextId))

\* permissions.can(resource, ctx)[action](), on the action object the caller keeps
CallActionFn(action) ==
    /\ held.value.type = "actionObject"
    /\ action \in DOMAIN held.value.fns
    /\ Complete("actions.fn",
                [resource |-> held.from.resource, ctx |-> held.from.actionOrCtx,
                 action |-> action],
                actionFn(held.value.fns[action], NextId))

\* permissions[name](definition) for a name the object has no property of:
\* the property reads as undefined, and calling undefined is a TypeError.
CallOtherMethod(name, definition) ==
    /\ name \notin api.methods
    /\ Complete(name, [definition |-> definition], Outcome(Throw(TypeError), <<>>))

\* createPermissionDefinition(resource, handlers): the caller makes a
\* definition; nothing of the permissions object takes part.  The record of
\* the call holds the returned definition as the value it is.
CallCreatePermissionDefinition(resource, handlers) ==
    /\ last' = Record("createPermissionDefinition",
                      [resource |-> resource, handlers |-> handlers],
                      Outcome(Return([type |-> "definition",
                                      object |-> createPermissionDefinition(resource, handlers)]),
                              <<>>))
    /\ held' = Nothing
    /\ UNCHANGED <<initialDefs, defs, promises, setting>>

\* The event loop settles a pending promise.
Settle(n) ==
    /\ n \in DOMAIN promises
    /\ promises[n].state = "pending"
    /\ promises' = [promises EXCEPT ![n].state = "settled"]
    /\ UNCHANGED <<initialDefs, defs, last, held, setting>>

\* The caller awaits a settled promise it got and obtains what it settled to.
Await(n) ==
    /\ n \in DOMAIN promises
    /\ promises[n].state = "settled"
    /\ last' = Record("await", [promise |-> Promise(n)], Outcome(promises[n].settle, <<>>))
    /\ promises' = [m \in DOMAIN promises \ {n} |-> promises[m]]
    /\ UNCHANGED <<initialDefs, defs, held, setting>>

Next ==
    \/ \E r \in Resources : CallGet(r)
    \/ \E a \in Actors : CallAccessorCan(a)
    \/ \E a \in ActionNames, x \in Extras : CallInvokerMethod(a, x[1], x[2])
    \/ \E r \in Resources, x \in SecondArgs : CallCan2(r, x)
    \/ \E r \in Resources, x \in Calls3 : CallCan3(r, x[1], x[2])
    \/ \E a \in ActionNames : CallActionFn(a)
    \/ \E m \in OtherMethods, d \in Definitions : CallOtherMethod(m, d)
    \/ \E r \in DefinitionNames, h \in HandlerMappings : CallCreatePermissionDefinition(r, h)
    \/ \E n \in 1..MaxPromises : Settle(n)
    \/ \E n \in 1..MaxPromises : Await(n)

Spec == Init /\ [][Next]_vars


(***************************************************************************)
(* What the claims speak of                                                *)
(***************************************************************************)
Registered(resource) == resource \in DOMAIN defs

\* The action names declared in the handler mapping of a registered resource.
Declared(resource) == DOMAIN defs[resource].handlers

\* What a caller can observe of an outcome: the completion, and for a
\* promise what it settles to instead of its identity.
Result(out) ==
    IF out.completion.kind = "return" /\ out.completion.value.type = "promise"
    THEN [kind |-> "promise",
          settle |-> (CHOOSE p \in out.spawned : p.id = out.completion.value.id).settle]
    ELSE out.completion

LastResult ==
    IF /\ last.completion.kind = "return"
       /\ last.completion.value.type = "promise"
       /\ last.completion.value.id \in DOMAIN promises
    THEN [kind |-> "promise", settle |-> promises[last.completion.value.id].settle]
    ELSE last.completion

\* The three dispatch paths, from the registry to the handler's result.
ViaSingle(resource, action, ctx) == can(defs, resource, Str(action), ctx, NextId)

ViaBatch(resource, action, ctx) ==
    actionFn(can(defs, resource, ctx, Undefined, NextId).completion.value.fns[action], NextId)

ViaBuilder(resource, action, ctx) ==
    LET accessor == get(defs, resource).completion.value
        invoker == accessorCan(accessor, Prop(ctx, "actor")).completion.value
    IN invokerMethod(invoker.fns[action], Prop(ctx, "entity"), Prop(ctx, "attributes"), NextId)

\* The latest call is can(resource, action, ctx) in the single-action shape.
LastIsSingle ==
    /\ last.op = "can"
    /\ last.input.actionOrCtx.type = "string"
    /\ last.input.ctx # Undefined

\* The latest call is can(resource, x) or can(resource, x, ctx) in the batch shape.
LastIsBatch == last.op = "can" /\ ~LastIsSingle

\* The latest call dispatched to a handler by one of the three paths.
LastIsDispatch == LastIsSingle \/ last.op \in {"invoker.method", "actions.fn"}

LastAction == IF last.op = "can" THEN last.input.actionOrCtx.val ELSE last.input.action

\* The context the latest dispatch was made for.
LastCtx ==
    IF last.op = "invoker.method"
    THEN Obj([actor |-> last.input.actor, entity |-> last.input.entity,
              attributes |-> last.input.attributes])
    ELSE last.input.ctx

(***************************************************************************)
(* C1: for a registered resource R, an action A declared for R and a       *)
(* context ctx, the three dispatch paths give the same result:             *)
(* can(R, A, ctx), get(R).can(ctx.actor)[A](ctx.entity, ctx.attributes)    *)
(* and can(R, ctx)[A]().  It is stated of every context of the model, and  *)
(* of the dispatch the caller made last, whichever path it took.           *)
(***************************************************************************)
C1_ThreePathsAgree ==
    /\ \A r \in DOMAIN defs : \A a \in Declared(r) : \A ctx \in Contexts :
          /\ Result(ViaSingle(r, a, ctx)) = Result(ViaBuilder(r, a, ctx))
          /\ Result(ViaSingle(r, a, ctx)) = Result(ViaBatch(r, a, ctx))
    /\ (/\ LastIsDispatch
        /\ LastCtx.type = "object"
        /\ Registered(last.input.resource)
        /\ LastAction \in Declared(last.input.resource))
       => /\ LastResult = Result(ViaSingle(last.input.resource, LastAction, LastCtx))
          /\ LastResult = Result(ViaBuilder(last.input.resource, LastAction, LastCtx))
          /\ LastResult = Result(ViaBatch(last.input.resource, LastAction, LastCtx))

\* A builder call whose answer rests on the attributes it was given.
C1_Witness ==
    /\ last.op = "invoker.method"
    /\ last.input.action = "publish"
    /\ last.input.actor = user
    /\ last.input.attributes = Obj([flag |-> True])
    /\ last.completion = Return(True)

(***************************************************************************)
(* C2: for a resource name R that is not registered, get(R), can(R, ctx)   *)
(* and can(R, action, ctx) each fail with the unknown-resource error, and  *)
(* the error names R, whatever the second and third arguments are.         *)
(***************************************************************************)
IsUnknownResourceError(c, resource) ==
    /\ c.kind = "throw"
    /\ c.value.type = "Error"
    /\ c.value.message = <<"No permission definition for resource: ", resource>>

C2_UnknownResource ==
    /\ \A r \in Resources \ DOMAIN defs :
          /\ IsUnknownResourceError(get(defs, r).completion, r)
          /\ \A x \in SecondArgs, c \in ThirdArgs :
                IsUnknownResourceError(can(defs, r, x, c, NextId).completion, r)
    /\ (last.op \in {"get", "can"} /\ ~Registered(last.input.resource))
       => IsUnknownResourceError(last.completion, last.input.resource)

C2_Witness ==
    /\ last.op = "can"
    /\ last.input.resource = "edge-returns"
    /\ last.input.actionOrCtx = Str("returnsZero")
    /\ last.input.ctx = Null
    /\ Registered("post")
    /\ IsUnknownResourceError(last.completion, "edge-returns")

(***************************************************************************)
(* C3: for a registered resource R, an action name A that is not in R's    *)
(* handler mapping and a context ctx, can(R, A, ctx) fails with the        *)
(* unknown-action error, and the error names both R and A.                 *)
(***************************************************************************)
IsUnknownActionError(c, action, resource) ==
    /\ c.kind = "throw"
    /\ c.value.type = "Error"
    /\ c.value.message = <<"No handler for action '", action, "' on resource '", resource, "'">>

C3_UnknownAction ==
    (/\ LastIsSingle
     /\ Registered(last.input.resource)
     /\ LastAction \notin Declared(last.input.resource))
    => IsUnknownActionError(last.completion, LastAction, last.input.resource)


(***************************************************************************)
(* C4: on a registered resource, can(resource, actionOrCtx, ctx) takes the *)
(* single-action shape if and only if actionOrCtx is a string and ctx is   *)
(* defined; null, 0, "" and false as third argument still select it, and   *)
(* every other combination is the batch shape with actionOrCtx as context. *)
(* Single-action shape: unknown-action is raised or one handler is called  *)
(* with ctx.  Batch shape: an action object bound to actionOrCtx.          *)
(***************************************************************************)
IsBatchOutcome(completion, invoked, context) ==
    /\ completion.kind = "return"
    /\ completion.value.type = "actionObject"
    /\ \A a \in DOMAIN completion.value.fns : completion.value.fns[a].ctx = context
    /\ invoked = <<>>

IsSingleOutcome(completion, invoked, resource, action, ctx) ==
    /\ ~(completion.kind = "return" /\ completion.value.type = "actionObject")
    /\ \/ IsUnknownActionError(completion, action, resource) /\ invoked = <<>>
       \/ Len(invoked) = 1 /\ invoked[1].args = ctx

ShapeIsRight(completion, invoked, resource, actionOrCtx, ctx) ==
    IF actionOrCtx.type = "string" /\ ctx.type # "undefined"
    THEN IsSingleOutcome(completion, invoked, resource, actionOrCtx.val, ctx)
    ELSE IsBatchOutcome(completion, invoked, actionOrCtx)

C4_ShapeSelection ==
    /\ \A r \in DOMAIN defs : \A x \in SecondArgs : \A c \in ThirdArgs :
          LET out == can(defs, r, x, c, NextId)
          IN ShapeIsRight(out.completion, out.invoked, r, x, c)
    /\ (last.op = "can" /\ Registered(last.input.resource))
       => ShapeIsRight(last.completion, last.invoked, last.input.resource,
                       last.input.actionOrCtx, last.input.ctx)

\* A handler reached through a third argument that is null.
C4_Witness ==
    /\ last.op = "can"
    /\ last.input.actionOrCtx = Str("returnsZero")
    /\ last.input.ctx = Null
    /\ Len(last.invoked) = 1
    /\ last.completion = Return(Num("0"))

(***************************************************************************)
(* C5: a two-argument call can(R, x) on a registered resource is always    *)
(* the batch shape, whatever x is: it returns the action object and never  *)
(* raises unknown-action, also when x is a string, naming an action or not.*)
(***************************************************************************)
C5_TwoArgumentsIsBatch ==
    /\ \A r \in DOMAIN defs : \A x \in SecondArgs :
          LET out == can(defs, r, x, Undefined, NextId)
          IN IsBatchOutcome(out.completion, out.invoked, x)
    /\ (last.op = "can" /\ last.input.ctx = Undefined /\ Registered(last.input.resource))
       => IsBatchOutcome(last.completion, last.invoked, last.input.actionOrCtx)

C5_Witness ==
    /\ last.op = "can"
    /\ last.input.ctx = Undefined
    /\ last.input.actionOrCtx = Str("nonexistent")
    /\ Registered(last.input.resource)
    /\ last.completion.kind = "return"
    /\ last.completion.value.type = "actionObject"

(***************************************************************************)
(* C6: on all three dispatch paths the value returned to the caller is     *)
(* exactly the value the handler returned, with no coercion and no         *)
(* defaulting: 0, "", null, undefined and an object come back as they are. *)
(***************************************************************************)
\* What the handlers of edgeCaseDef return, as the tests expect it.
EdgeReturns ==
    [returnsUndefined |-> Undefined, returnsNull |-> Null, returnsZero |-> Num("0"),
     returnsEmptyString |-> Str(""), returnsObject |-> Obj([result |-> True])]

HandlerResultReturned(out) ==
    /\ Len(out.invoked) = 1
    /\ out.completion = out.invoked[1].completion

C6_ResultPassedThrough ==
    /\ \A r \in DOMAIN defs : \A a \in Declared(r) : \A ctx \in Contexts :
          /\ HandlerResultReturned(ViaSingle(r, a, ctx))
          /\ HandlerResultReturned(ViaBatch(r, a, ctx))
          /\ HandlerResultReturned(ViaBuilder(r, a, ctx))
          /\ defs[r] = edgeCaseDef
             => /\ ViaSingle(r, a, ctx).completion = Return(EdgeReturns[a])
                /\ ViaBatch(r, a, ctx).completion = Return(EdgeReturns[a])
                /\ ViaBuilder(r, a, ctx).completion = Return(EdgeReturns[a])
    /\ (LastIsDispatch /\ Len(last.invoked) = 1)
       => last.completion = last.invoked[1].completion
    /\ (/\ LastIsDispatch
        /\ Registered(last.input.resource)
        /\ defs[last.input.resource] = edgeCaseDef
        /\ LastAction \in Declared(last.input.resource))
       => last.completion = Return(EdgeReturns[LastAction])

C6_Witness ==
    /\ last.op = "invoker.method"
    /\ last.input.action = "returnsNull"
    /\ last.completion = Return(Null)

(***************************************************************************)
(* C7: when the list given to createPermissions holds several definitions  *)
(* with the same resource name, the registry entry is the one at the last  *)
(* position with that name and replaces the earlier ones whole: dispatch   *)
(* sees only the last definition's handlers, and an action declared only   *)
(* by an earlier definition is unknown.                                    *)
(***************************************************************************)
Items(initial) == IF initial.type = "undefined" THEN <<>> ELSE initial.items

LastIndexOf(items, resource) ==
    CHOOSE i \in DOMAIN items :
        /\ items[i].resource = resource
        /\ \A j \in DOMAIN items : j > i => items[j].resource # resource

LastWins(registry, items) ==
    /\ DOMAIN registry = {items[i].resource : i \in DOMAIN items}
    /\ \A r \in DOMAIN registry : registry[r] = items[LastIndexOf(items, r)]

\* The action names that only a definition before the last one declares.
EarlierOnly(items, resource) ==
    UNION {DOMAIN items[i].handlers : i \in {j \in DOMAIN items : items[j].resource = resource}}
    \ DOMAIN items[LastIndexOf(items, resource)].handlers

C7_LastDefinitionWins ==
    /\ LastWins(defs, Items(initialDefs))
    /\ last.op = "createPermissions"
       => \A s \in SeqsUpTo(Definitions, MaxDefs) : LastWins(createPermissions(Arr(s)), s)
    /\ \A r \in DOMAIN defs :
          LET theLast == Items(initialDefs)[LastIndexOf(Items(initialDefs), r)]
          IN /\ DOMAIN get(defs, r).completion.value.def.handlers = DOMAIN theLast.handlers
             /\ \A ctx \in Contexts :
                   /\ DOMAIN can(defs, r, ctx, Undefined, NextId).completion.value.fns
                         = DOMAIN theLast.handlers
                   /\ \A a \in DOMAIN theLast.handlers :
                         ViaSingle(r, a, ctx).invoked[1].handler = theLast.handlers[a]
                   /\ \A a \in EarlierOnly(Items(initialDefs), r) :
                         IsUnknownActionError(ViaSingle(r, a, ctx).completion, a, r)
    /\ (LastIsDispatch /\ Len(last.invoked) = 1 /\ Registered(last.input.resource)
        /\ LastAction \in Declared(last.input.resource))
       => last.invoked[1].handler
            = Items(initialDefs)[LastIndexOf(Items(initialDefs), last.input.resource)]
                  .handlers[LastAction]

\* "post" is defined twice, and create, which only the first definition
\* declares, is unknown.
C7_Witness ==
    /\ initialDefs = Arr(<<postDef, asyncDef>>)
    /\ LastIsSingle
    /\ last.input.resource = "post"
    /\ LastAction = "create"
    /\ IsUnknownActionError(last.completion, "create", "post")

(***************************************************************************)
(* C8: the unknown-resource and unknown-action errors are raised by the    *)
(* call itself before any handler is invoked: a call of get or can that    *)
(* fails with one of them has invoked no handler, a call on an unknown     *)
(* resource throws at once, and no pending value ever carries one of the   *)
(* two errors, also when the handlers of the registry are asynchronous.    *)
(***************************************************************************)
IsLibraryError(v) == v.type = "Error"

C8_ErrorsBeforeHandlers ==
    /\ (last.op \in {"get", "can"} /\ last.completion.kind = "throw"
        /\ IsLibraryError(last.completion.value))
       => last.invoked = <<>>
    /\ (last.op \in {"get", "can"} /\ ~Registered(last.input.resource))
       => last.completion.kind = "throw" /\ last.invoked = <<>>
    /\ (LastIsSingle /\ Registered(last.input.resource) /\ last.invoked = <<>>)
       => last.completion.kind = "throw" /\ IsLibraryError(last.completion.value)
    /\ \A n \in DOMAIN promises : ~IsLibraryError(promises[n].settle.value)
    /\ last.op # "await" => ~(last.completion.kind = "return"
                              /\ IsLibraryError(last.completion.value))

\* An unknown action on a registry whose handlers are asynchronous, while a
\* promise of an earlier dispatch is still pending.
C8_Witness ==
    /\ LastIsSingle
    /\ Registered(last.input.resource)
    /\ defs[last.input.resource] = asyncDef
    /\ IsUnknownActionError(last.completion, "nonexistent", "post")
    /\ last.invoked = <<>>
    /\ \E n \in DOMAIN promises : promises[n].state = "pending"

(***************************************************************************)
(* C9: the library never waits for an asynchronous handler: a dispatch on  *)
(* any path returns the handler's promise as it is, and the promise is     *)
(* new and still pending when the call completes; nothing requires it to   *)
(* settle.  The boolean is obtained only by awaiting the promise.          *)
(***************************************************************************)
LastReturnedPromise ==
    /\ LastIsDispatch
    /\ Len(last.invoked) = 1
    /\ last.invoked[1].completion.kind = "return"
    /\ last.invoked[1].completion.value.type = "promise"

C9_NeverWaits ==
    [][(last' # last /\ LastReturnedPromise')
       => /\ last'.completion = last'.invoked[1].completion
          /\ last'.invoked[1].handler \in AsyncHandlers
          /\ last'.completion.value.id \notin DOMAIN promises
          /\ last'.completion.value.id \in DOMAIN promises'
          /\ promises'[last'.completion.value.id].state = "pending"
          /\ \A n \in DOMAIN promises : promises'[n] = promises[n]]_vars

\* The call has completed and the promise it returned is pending.
C9_Witness ==
    /\ last.op = "actions.fn"
    /\ last.completion = Return(Promise(1))
    /\ promises[1].state = "pending"
    /\ promises[1].settle = Return(False)

(***************************************************************************)
(* C10: for a registered resource R, the batch call can(R, ctx) returns an *)
(* object whose keys are exactly the action names of R's handler mapping;  *)
(* the function for action A invokes R's handler for A with the supplied   *)
(* ctx unchanged and returns that handler's result.                        *)
(***************************************************************************)
InvokedOnce(completion, invoked, handler, args) ==
    /\ Len(invoked) = 1
    /\ invoked[1].handler = handler
    /\ invoked[1].args = args
    /\ completion = invoked[1].completion

C10_ActionObject ==
    /\ \A r \in DOMAIN defs : \A x \in SecondArgs :
          LET out == can(defs, r, x, Undefined, NextId)
          IN /\ out.completion.kind = "return"
             /\ out.completion.value.type = "actionObject"
             /\ DOMAIN out.completion.value.fns = Declared(r)
             /\ out.invoked = <<>>
             /\ \A a \in Declared(r) :
                   LET o == actionFn(out.completion.value.fns[a], NextId)
                   IN InvokedOnce(o.completion, o.invoked, defs[r].handlers[a], x)
    /\ (LastIsBatch /\ Registered(last.input.resource))
       => /\ DOMAIN last.completion.value.fns = Declared(last.input.resource)
          /\ held.value = last.completion.value
    /\ last.op = "actions.fn"
       => InvokedOnce(last.completion, last.invoked,
                      defs[last.input.resource].handlers[last.input.action], last.input.ctx)

C10_Witness ==
    /\ last.op = "actions.fn"
    /\ last.input.action = "edit"
    /\ last.input.ctx = Obj([actor |-> user, entity |-> post, attributes |-> Undefined])
    /\ last.invoked[1].handler = "adminOrAuthor"
    /\ last.completion = Return(True)

(***************************************************************************)
(* C11: for a registered resource R and any actor, get(R).can(actor)       *)
(* returns an invoker whose method names are exactly the action names that *)
(* R's handler mapping declares, no more and no fewer, and making it calls *)
(* no handler.  It is stated of every actor of the model, of undefined and *)
(* null as actor, and of the accessor call the caller made last.           *)
(***************************************************************************)
IsInvokerOf(out, resource) ==
    /\ out.completion.kind = "return"
    /\ out.completion.value.type = "invoker"
    /\ DOMAIN out.completion.value.fns = Declared(resource)
    /\ out.invoked = <<>>

C11_InvokerMethods ==
    /\ \A r \in DOMAIN defs : \A actor \in Actors \cup {Undefined, Null} :
          IsInvokerOf(accessorCan(get(defs, r).completion.value, actor), r)
    /\ last.op = "get.can" => IsInvokerOf(last, last.input.resource)

\* The invoker of the second definition of "post": edit and publish, and
\* not the create of the first.
C11_Witness ==
    /\ last.op = "get.can"
    /\ initialDefs = Arr(<<postDef, asyncDef>>)
    /\ last.input.resource = "post"
    /\ last.input.actor = user
    /\ DOMAIN last.completion.value.fns = {"edit", "publish"}
    /\ held.value = last.completion.value

(***************************************************************************)
(* C12: a method of the builder, get(R).can(actor)[A](entity, attributes), *)
(* invokes R's handler for A once with an object that holds the captured   *)
(* actor and the two positional arguments as they were given; an entity or *)
(* attributes left out reaches the handler as undefined, and no check of   *)
(* required fields is made: the handler is invoked also when it needs the  *)
(* entity that was left out.                                               *)
(***************************************************************************)
\* The entity and attributes of the builder calls the claim is stated of.
BuilderArguments == Extras \cup {<<Undefined, Obj([flag |-> True])>>}

C12_BuilderArguments ==
    /\ \A r \in DOMAIN defs : \A a \in Declared(r) : \A actor \in Actors :
          \A x \in BuilderArguments :
             LET invoker == accessorCan(get(defs, r).completion.value, actor).completion.value
                 o == invokerMethod(invoker.fns[a], x[1], x[2], NextId)
             IN InvokedOnce(o.completion, o.invoked, defs[r].handlers[a],
                            Obj([actor |-> actor, entity |-> x[1], attributes |-> x[2]]))
    /\ last.op = "invoker.method"
       => InvokedOnce(last.completion, last.invoked,
                      defs[last.input.resource].handlers[last.input.action],
                      Obj([actor |-> last.input.actor, entity |-> last.input.entity,
                           attributes |-> last.input.attributes]))

\* edit needs the entity for a user who is no admin: called without it, the
\* handler is invoked with entity undefined and fails by itself.
C12_Witness ==
    /\ last.op = "invoker.method"
    /\ last.input.action = "edit"
    /\ last.input.actor = user
    /\ last.input.entity = Undefined
    /\ last.invoked[1].handler = "adminOrAuthor"
    /\ last.invoked[1].args =
          Obj([actor |-> user, entity |-> Undefined, attributes |-> Undefined])
    /\ last.completion = Throw(TypeError)

(***************************************************************************)
(* C13: for a registered resource R and an action A that R declares,       *)
(* can(R, A, ctx) invokes R's handler for A with the supplied ctx itself,  *)
(* no field added, dropped or defaulted, and invokes no handler of another *)
(* action; what the call gives is the handler's result and not an object   *)
(* of functions.  It is stated of every context of the model and of null,  *)
(* 0, "" and false as ctx, and of the call the caller made last.           *)
(***************************************************************************)
IsHandlerResult(completion, invoked, handler, args) ==
    /\ InvokedOnce(completion, invoked, handler, args)
    /\ ~(completion.kind = "return" /\ completion.value.type = "actionObject")

C13_SingleAction ==
    /\ \A r \in DOMAIN defs : \A a \in Declared(r) : \A ctx \in Contexts \cup Falsy :
          LET o == can(defs, r, Str(a), ctx, NextId)
          IN IsHandlerResult(o.completion, o.invoked, defs[r].handlers[a], ctx)
    /\ (/\ LastIsSingle
        /\ Registered(last.input.resource)
        /\ LastAction \in Declared(last.input.resource))
       => IsHandlerResult(last.completion, last.invoked,
                          defs[last.input.resource].handlers[LastAction], last.input.ctx)

\* create declared next to edit: the create handler alone is invoked, with
\* the null that was given as ctx, and its failure is the call's.
C13_Witness ==
    /\ LastIsSingle
    /\ initialDefs = Arr(<<postDef>>)
    /\ last.input.resource = "post"
    /\ LastAction = "create"
    /\ last.input.ctx = Null
    /\ Len(last.invoked) = 1
    /\ last.invoked[1].handler = "roleIsAdmin"
    /\ last.invoked[1].args = Null
    /\ last.completion = Throw(TypeError)

(***************************************************************************)
(* C14: each registered resource name maps to exactly one definition, a    *)
(* definition of the list given under that name, and action names are      *)
(* scoped to their resource: when two registered resources both declare an *)
(* action of the same name, dispatch on (R, A) by each of the three paths  *)
(* invokes the handler R's definition gives for A and no other.            *)
(***************************************************************************)
\* The definition of the given list that the registry holds for a name.
Given(resource) == Items(initialDefs)[LastIndexOf(Items(initialDefs), resource)]

\* The action names that a registered resource shares with another one.
Shared(resource) ==
    UNION {DOMAIN Given(resource).handlers \cap DOMAIN Given(other).handlers :
             other \in DOMAIN defs \ {resource}}

InvokesOnly(out, handler) == Len(out.invoked) = 1 /\ out.invoked[1].handler = handler

C14_ActionsScoped ==
    /\ \A r \in DOMAIN defs : defs[r] = Given(r) /\ defs[r].resource = r
    /\ \A r \in DOMAIN defs : \A a \in Shared(r) : \A ctx \in Contexts :
          /\ InvokesOnly(ViaSingle(r, a, ctx), Given(r).handlers[a])
          /\ InvokesOnly(ViaBatch(r, a, ctx), Given(r).handlers[a])
          /\ InvokesOnly(ViaBuilder(r, a, ctx), Given(r).handlers[a])
    /\ (/\ LastIsDispatch
        /\ Registered(last.input.resource)
        /\ LastAction \in DOMAIN Given(last.input.resource).handlers)
       => InvokesOnly(last, Given(last.input.resource).handlers[LastAction])

\* "post" and "comment" both declare create: for the same user the one of
\* "post" refuses and the one of "comment", dispatched here, allows.
C14_Witness ==
    /\ initialDefs = Arr(<<postDef, commentDef>>)
    /\ last.op = "invoker.method"
    /\ last.input.resource = "comment"
    /\ last.input.action = "create"
    /\ last.input.actor = user
    /\ "create" \in Shared("comment")
    /\ last.invoked[1].handler = "roleNotBanned"
    /\ last.completion = Return(True)
    /\ ViaBuilder("post", "create", LastCtx).completion = Return(False)

C16_EmptyRegistry ==
    /\ last.op = "createPermissions"
       => /\ last.completion.kind = "return"
          /\ {"get", "can"} \subseteq last.completion.value.methods
    /\ initialDefs \in {Undefined, Arr(<<>>)}
       => /\ DOMAIN defs = {}
          /\ \A r \in Resources :
                /\ IsUnknownResourceError(get(defs, r).completion, r)
                /\ \A x \in SecondArgs, c \in ThirdArgs :
                      IsUnknownResourceError(can(defs, r, x, c, NextId).completion, r)
          /\ last.op \in {"get", "can"}
             => IsUnknownResourceError(last.completion, last.input.resource)

\* createPermissions() was called with no argument, and get("post") fails.
C16_Witness ==
    /\ initialDefs = Undefined
    /\ defs = EmptyMap
    /\ last.op = "get"
    /\ last.input.resource = "post"
    /\ IsUnknownResourceError(last.completion, "post")

(***************************************************************************)
(* C17: when a handler raises an error, or returns a pending value that    *)
(* rejects, the dispatch that invoked it delivers that same failure on     *)
(* each of the three paths: the call throws the handler's error, or        *)
(* returns the handler's promise, which rejects with it.  The library does *)
(* not catch it, does not put false or one of its own two errors in its    *)
(* place, and does not invoke the handler a second time.                   *)
(***************************************************************************)
\* The outcome of a dispatch is the failure of the handler body for args.
DeliversFailure(out, promiseOf, handler, args) ==
    /\ Len(out.invoked) = 1
    /\ out.invoked[1].handler = handler
    /\ out.invoked[1].args = args
    /\ IF handler \in AsyncHandlers
       THEN /\ out.completion.kind = "return"
            /\ out.completion.value.type = "promise"
            /\ promiseOf = [kind |-> "promise", settle |-> HandlerBody(handler, args)]
       ELSE out.completion = HandlerBody(handler, args)

C17_HandlerFailure ==
    /\ \A r \in DOMAIN defs : \A a \in Declared(r) : \A ctx \in Contexts \cup Falsy :
          LET h == defs[r].handlers[a]
              single == ViaSingle(r, a, ctx)
              batch == ViaBatch(r, a, ctx)
          IN HandlerBody(h, ctx).kind = "throw"
             => /\ DeliversFailure(single, Result(single), h, ctx)
                /\ DeliversFailure(batch, Result(batch), h, ctx)
    /\ \A r \in DOMAIN defs : \A a \in Declared(r) : \A ctx \in Contexts :
          LET h == defs[r].handlers[a]
              args == Obj([actor |-> Prop(ctx, "actor"), entity |-> Prop(ctx, "entity"),
                           attributes |-> Prop(ctx, "attributes")])
              builder == ViaBuilder(r, a, ctx)
          IN HandlerBody(h, args).kind = "throw"
             => DeliversFailure(builder, Result(builder), h, args)
    /\ (/\ LastIsDispatch
        /\ Len(last.invoked) = 1
        /\ HandlerBody(last.invoked[1].handler, last.invoked[1].args).kind = "throw")
       => /\ DeliversFailure(last, LastResult, last.invoked[1].handler, last.invoked[1].args)
          /\ ~(last.completion.kind = "throw" /\ IsLibraryError(last.completion.value))

\* The async handler of edit was given null as context: the call returned
\* the handler's promise, and the promise has rejected with the TypeError of
\* the handler.
C17_Witness ==
    /\ LastIsSingle
    /\ LastAction = "edit"
    /\ last.input.ctx = Null
    /\ Len(last.invoked) = 1
    /\ last.invoked[1].handler = "asyncRoleIsAdmin"
    /\ last.completion.value.type = "promise"
    /\ last.completion.value.id \in DOMAIN promises
    /\ promises[last.completion.value.id].state = "settled"
    /\ promises[last.completion.value.id].settle = Throw(TypeError)

(***************************************************************************)
(* C18: createPermissionDefinition(resource, handlers) is total and free   *)
(* of side effects: for every resource string, with special characters,    *)
(* long or empty, and every handler mapping, the empty one included, the   *)
(* call returns a definition whose resource and handlers are the values    *)
(* given, with nothing defaulted or validated, invokes no handler and      *)
(* leaves the registry, the given list and the promises as they were.      *)
(***************************************************************************)
\* The step is a call of createPermissionDefinition.
IsCreateDefinitionStep ==
    /\ <<last, held>>' # <<last, held>>
    /\ last'.op = "createPermissionDefinition"

C18_DefinitionAsGiven ==
    [][IsCreateDefinitionStep
       => /\ last'.completion.kind = "return"
          /\ last'.completion.value.object
                = [resource |-> last'.input.resource, handlers |-> last'.input.handlers]
          /\ last'.invoked = <<>>
          /\ defs' = defs
          /\ initialDefs' = initialDefs
          /\ promises' = promises]_vars

\* A definition with the long name and no handlers, made while a registry
\* with "post" is in use.
C18_Witness ==
    /\ last.op = "createPermissionDefinition"
    /\ last.input.resource = LongName
    /\ Len(LongName) = 100
    /\ last.input.handlers = EmptyMap
    /\ last.completion.value.object.resource = LongName
    /\ DOMAIN last.completion.value.object.handlers = {}
    /\ Registered("post")

(***************************************************************************)
(* Dispatches in flight together.  The caller starts dispatches by any of  *)
(* the three paths without awaiting the earlier ones; each chain of calls  *)
(* (get, can, the method) is synchronous code and one step.  The promises  *)
(* of the async handlers settle in any order and are awaited in any order. *)
(* Each promise is kept with the call that created it.                     *)
(***************************************************************************)
\* How many promises can be there at a time in this specification.
MaxInFlight == MaxPromises + 1

Paths == {"single", "batch", "builder"}

\* The contexts of the dispatches in flight: the same post, for each actor.
ConcurrentContexts ==
    {Obj([actor |-> a, entity |-> post, attributes |-> Undefined]) : a \in Actors}

\* The dispatch of (resource, action) with ctx by a path, on the registry d.
DispatchOn(d, path, resource, action, ctx, nid) ==
    CASE path = "single" -> can(d, resource, Str(action), ctx, nid)
      [] path = "batch" ->
            actionFn(can(d, resource, ctx, Undefined, nid).completion.value.fns[action], nid)
      [] path = "builder" ->
            LET accessor == get(d, resource).completion.value
                invoker == accessorCan(accessor, Prop(ctx, "actor")).completion.value
            IN invokerMethod(invoker.fns[action], Prop(ctx, "entity"),
                             Prop(ctx, "attributes"), nid)

NextIdConcurrent == CHOOSE n \in 1..MaxInFlight : n \notin DOMAIN promises

StartDispatch(path, resource, action, ctx) ==
    /\ Registered(resource)
    /\ action \in Declared(resource)
    /\ Cardinality(DOMAIN promises) < MaxInFlight
    /\ LET call == [path |-> path, resource |-> resource, action |-> action, ctx |-> ctx]
           out == DispatchOn(defs, path, resource, action, ctx, NextIdConcurrent)
       IN /\ last' = Record("dispatch", call, out)
          /\ promises' = [n \in DOMAIN promises \cup {p.id : p \in out.spawned} |->
                            IF n \in DOMAIN promises THEN promises[n]
                            ELSE LET p == CHOOSE q \in out.spawned : q.id = n
                                 IN [state |-> p.state, settle |-> p.settle, call |-> call]]
    /\ UNCHANGED <<initialDefs, defs, held, setting>>

\* The caller awaits a settled promise, whichever dispatch it is of.
AwaitDispatch(n) ==
    /\ n \in DOMAIN promises
    /\ promises[n].state = "settled"
    /\ last' = Record("await", [promise |-> Promise(n), call |-> promises[n].call],
                      Outcome(promises[n].settle, <<>>))
    /\ promises' = [m \in DOMAIN promises \ {n} |-> promises[m]]
    /\ UNCHANGED <<initialDefs, defs, held, setting>>

NextConcurrent ==
    \/ \E p \in Paths, r \in Resources, a \in ActionNames, ctx \in ConcurrentContexts :
          StartDispatch(p, r, a, ctx)
    \/ \E n \in 1..MaxInFlight : Settle(n)
    \/ \E n \in 1..MaxInFlight : AwaitDispatch(n)

SpecConcurrent == Init /\ [][NextConcurrent]_vars

(***************************************************************************)
(* C19: dispatch calls are independent and stateless with respect to the   *)
(* library.  When several dispatches are started and their asynchronous    *)
(* handlers resolve in any interleaving, each call's result is the one it  *)
(* would have had alone, on a registry newly built from the same list with *)
(* no other dispatch in flight: this holds of the promise of every call in *)
(* flight, of what awaiting it gives, and of the call made last, whatever  *)
(* calls were made before it.                                              *)
(***************************************************************************)
\* What the call gives when it is the only one ever made.
Alone(call) ==
    Result(DispatchOn(createPermissions(initialDefs), call.path, call.resource,
                      call.action, call.ctx, 1))

C19_Independent ==
    /\ \A n \in DOMAIN promises :
          Alone(promises[n].call) = [kind |-> "promise", settle |-> promises[n].settle]
    /\ last.op = "dispatch"
       => IF last.completion.kind = "return" /\ last.completion.value.type = "promise"
          THEN /\ last.completion.value.id \in DOMAIN promises
               /\ promises[last.completion.value.id].call = last.input
          ELSE Alone(last.input) = last.completion
    /\ last.op = "await"
       => Alone(last.input.call) = [kind |-> "promise", settle |-> last.completion]

\* Two dispatches of edit were started, for the admin and then for the
\* user; the second has resolved and was awaited first, while the first is
\* still pending.
C19_Witness ==
    /\ last.op = "await"
    /\ last.input.promise = Promise(2)
    /\ last.input.call.ctx.props.actor = user
    /\ last.completion = Return(False)
    /\ 1 \in DOMAIN promises
    /\ promises[1].state = "pending"
    /\ promises[1].call.ctx.props.actor = admin
    /\ promises[1].settle = Return(True)

(***************************************************************************)
(* C20: a registry created by createPermissions() with no argument accepts *)
(* a definition afterwards through add(definition): the call returns the   *)
(* permissions object, and after it the resource of the added definition   *)
(* is registered, so that get and can resolve it.                          *)
(***************************************************************************)
C20_AddRegisters ==
    (initialDefs = Undefined /\ last.op = "add")
    => /\ last.completion = Return(api)
       /\ Registered(last.input.definition.resource)
       /\ get(defs, last.input.definition.resource).completion.kind = "return"

(***************************************************************************)
(* C21: for a registered resource R, the action names A for which          *)
(* can(R, A, ctx) does not raise the unknown-action error are exactly the  *)
(* keys of the action object can(R, ctx) and of the invoker                *)
(* get(R).can(actor), namely the names R's handler mapping declares; a     *)
(* name that is not declared there, "toString" and "constructor" among     *)
(* them, is rejected as an unknown action.                                 *)
(***************************************************************************)
\* The names that the single-action call on a resource does not reject.
Accepted(resource, ctx) ==
    {a \in ActionNames :
        ~IsUnknownActionError(can(defs, resource, Str(a), ctx, NextId).completion, a, resource)}

C21_AcceptedAreDeclared ==
    /\ \A r \in DOMAIN defs : \A ctx \in {Obj([actor |-> admin]), Null} :
          /\ Accepted(r, ctx) = Declared(r)
          /\ Accepted(r, ctx) = DOMAIN can(defs, r, ctx, Undefined, NextId).completion.value.fns
          /\ Accepted(r, ctx)
                = DOMAIN accessorCan(get(defs, r).completion.value, admin).completion.value.fns
    /\ (/\ LastIsSingle
        /\ Registered(last.input.resource)
        /\ ~IsUnknownActionError(last.completion, LastAction, last.input.resource))
       => LastAction \in Declared(last.input.resource)

(***************************************************************************)
(* C23: building is lazy and each call dispatches once.  get(R),           *)
(* get(R).can(actor) and the batch call can(R, ctx) invoke no handler at   *)
(* all, whatever the actor or context is; each later call of one function  *)
(* of the invoker or of the action object, like each single-action call    *)
(* can(R, A, ctx) for a declared A, invokes exactly one handler, the one   *)
(* declared for that action, exactly once.                                 *)
(***************************************************************************)
C23_LazyAndOnce ==
    /\ \A r \in DOMAIN defs :
          /\ get(defs, r).invoked = <<>>
          /\ accessorCan(get(defs, r).completion.value, Undefined).invoked = <<>>
          /\ can(defs, r, Null, Undefined, NextId).invoked = <<>>
    /\ (last.op \in {"get", "get.can"} \/ LastIsBatch)
       => last.invoked = <<>>
    /\ last.op \in {"invoker.method", "actions.fn"}
       => InvokesOnly(last, defs[last.input.resource].handlers[last.input.action])
    /\ (/\ LastIsSingle
        /\ Registered(last.input.resource)
        /\ LastAction \in Declared(last.input.resource))
       => InvokesOnly(last, defs[last.input.resource].handlers[LastAction])

\* The action object of the definition with the async handler was built
\* without a call, and the one call of its edit function made the one
\* promise there is.
C23_Witness ==
    /\ initialDefs = Arr(<<asyncDef>>)
    /\ last.op = "actions.fn"
    /\ last.input.action = "edit"
    /\ held.value.type = "actionObject"
    /\ Len(last.invoked) = 1
    /\ last.invoked[1].handler = "asyncRoleIsAdmin"
    /\ Cardinality(DOMAIN promises) = 1

(***************************************************************************)
(* A session of calls on one permissions object.  The caller keeps two     *)
(* objects at a time, invokers or action objects, each in a slot, calls    *)
(* their functions in any order, makes single-action calls in between,     *)
(* among them calls that fail, and the setting that a handler reads        *)
(* changes between calls.  Here held gives what each slot holds, and the   *)
(* record of a call also tells how the call before it ended.               *)
(***************************************************************************)
\* use: () => setting, a handler whose answer rests on a value outside its
\* arguments; manage: ({ actor }) => actor.role === "admin"
featureDef ==
    createPermissionDefinition("feature", [use |-> "readsSetting", manage |-> "roleIsAdmin"])

SessionLists == {Arr(<<featureDef>>)}

SessionResources == {"feature", "missing"}

SessionActions == {"use", "manage", "nonexistent", "toString"}

SessionContexts == {Obj([actor |-> admin]), Obj([actor |-> user]), Null}

Slots == {1, 2}

\* How a call ended: with no failure, with one of the two errors of the
\* library, or with a failure of the handler.
FailureKind(c) ==
    IF c.kind # "throw" THEN "none"
    ELSE IF c.value.type # "Error" THEN "handler"
    ELSE IF c.value.message[1] = "No permission definition for resource: "
    THEN "unknown-resource" ELSE "unknown-action"

NoCompletion == [kind |-> "none"]

\* The record of a call, with how the call before it ended and, when that
\* was the same call, what it gave.
SessionRecord(op, input, out) ==
    [op |-> op, input |-> input, completion |-> out.completion, invoked |-> out.invoked,
     before |-> [failure |-> FailureKind(last.completion),
                 same |-> IF last.op = op /\ last.input = input
                          THEN last.completion ELSE NoCompletion]]

InitSession ==
    /\ initialDefs \in SessionLists
    /\ defs = createPermissions(initialDefs)
    /\ last = [op |-> "createPermissions", input |-> NoInput, completion |-> Return(api),
               invoked |-> <<>>, before |-> [failure |-> "none", same |-> NoCompletion]]
    /\ held = [s \in Slots |-> Nothing]
    /\ promises = EmptyMap
    /\ setting = False

\* The effects of a call of the session with a registry that a failed call
\* leaves empty.
SessionCallPoisons(op, input, out, slot) ==
    /\ out.spawned = {}
    /\ last' = SessionRecord(op, input, out)
    /\ held' = IF /\ out.completion.kind = "return"
                  /\ out.completion.value.type \in {"invoker", "actionObject"}
               THEN [held EXCEPT ![slot] = [value |-> out.completion.value, from |-> input]]
               ELSE held
    /\ defs' = IF out.completion.kind = "throw" THEN EmptyMap ELSE defs
    /\ UNCHANGED <<initialDefs, promises, setting>>

\* The effects of a call of the session: it is recorded, and an invoker or
\* action object it returned is kept in the slot.
SessionCall(op, input, out, slot) ==
    /\ out.spawned = {}
    /\ last' = SessionRecord(op, input, out)
    /\ held' = IF /\ out.completion.kind = "return"
                  /\ out.completion.value.type \in {"invoker", "actionObject"}
               THEN [held EXCEPT ![slot] = [value |-> out.completion.value, from |-> input]]
               ELSE held
    /\ UNCHANGED <<initialDefs, defs, promises, setting>>

\* slot = permissions.get(resource).can(actor)
KeepInvoker(slot, resource, actor) ==
    /\ slot \in Slots
    /\ LET got == get(defs, resource)
       IN SessionCall("get.can", [resource |-> resource, actor |-> actor],
                      IF got.completion.kind = "throw" THEN got
                      ELSE accessorCan(got.completion.value, actor),
                      slot)

\* const accessor = permissions.get(resource); the first slot is
\* accessor.can(first) and the second slot is accessor.can(actor).
KeepInvokersOfOne(resource, first, actor) ==
    /\ Registered(resource)
    /\ LET accessor == get(defs, resource).completion.value
           one == accessorCan(accessor, first)
           two == accessorCan(accessor, actor)
           input == [resource |-> resource, actor |-> actor]
       IN /\ last' = SessionRecord("get.can", input, two)
          /\ held' = [s \in Slots |->
                        IF s = 1
                        THEN [value |-> one.completion.value,
                              from |-> [resource |-> resource, actor |-> first]]
                        ELSE [value |-> two.completion.value, from |-> input]]
    /\ UNCHANGED <<initialDefs, defs, promises, setting>>

\* slot = permissions.can(resource, ctx)
KeepActions(slot, resource, ctx) ==
    /\ slot \in Slots
    /\ SessionCall("can", [resource |-> resource, actionOrCtx |-> ctx, ctx |-> Undefined],
                   can(defs, resource, ctx, Undefined, NextId), slot)

\* slot[action](entity, attributes), on an invoker
CallKeptMethod(slot, action, entity, attributes) ==
    /\ held[slot].value.type = "invoker"
    /\ action \in DOMAIN held[slot].value.fns
    /\ SessionCall("invoker.method",
                   [resource |-> held[slot].from.resource, actor |-> held[slot].from.actor,
                    action |-> action, entity |-> entity, attributes |-> attributes],
                   invokerMethod(held[slot].value.fns[action], entity, attributes, NextId),
                   slot)

\* slot[action](), on an action object
CallKeptFn(slot, action) ==
    /\ held[slot].value.type = "actionObject"
    /\ action \in DOMAIN held[slot].value.fns
    /\ SessionCall("actions.fn",
                   [resource |-> held[slot].from.resource,
                    ctx |-> held[slot].from.actionOrCtx, action |-> action],
                   actionFn(held[slot].value.fns[action], NextId), slot)

\* permissions.can(resource, action, ctx)
CallSingle(resource, action, ctx) ==
    /\ ctx # Undefined
    /\ SessionCall("can", [resource |-> resource, actionOrCtx |-> Str(action), ctx |-> ctx],
                   can(defs, resource, Str(action), ctx, NextId), 1)

\* The value the handler of use reads is changed from outside the library.
ChangeSetting ==
    /\ setting' = IF setting = False THEN True ELSE False
    /\ UNCHANGED <<initialDefs, defs, last, held, promises>>

NextSession ==
    \/ \E s \in Slots, r \in SessionResources, a \in Actors : KeepInvoker(s, r, a)
    \/ \E r \in SessionResources, a \in Actors, b \in Actors : KeepInvokersOfOne(r, a, b)
    \/ \E s \in Slots, r \in SessionResources, c \in SessionContexts : KeepActions(s, r, c)
    \/ \E s \in Slots, a \in SessionActions : CallKeptMethod(s, a, Undefined, Undefined)
    \/ \E s \in Slots, a \in SessionActions : CallKeptFn(s, a)
    \/ \E r \in SessionResources, a \in SessionActions, c \in SessionContexts :
          CallSingle(r, a, c)
    \/ ChangeSetting

SpecSession == InitSession /\ [][NextSession]_vars

(***************************************************************************)
(* C22: when both the resource and the action are unknown, can(R, A, ctx)  *)
(* fails with the unknown-resource error naming R and not with the         *)
(* unknown-action error: the resource is looked up, and its absence        *)
(* reported, before the action is looked at, whatever A and ctx are.       *)
(***************************************************************************)
C22_ResourceFirst ==
    /\ \A r \in SessionResources \ DOMAIN defs :
          \A a \in SessionActions, ctx \in SessionContexts :
             LET out == can(defs, r, Str(a), ctx, NextId)
             IN /\ IsUnknownResourceError(out.completion, r)
                /\ ~IsUnknownActionError(out.completion, a, r)
                /\ out.invoked = <<>>
    /\ (LastIsSingle /\ ~Registered(last.input.resource))
       => /\ IsUnknownResourceError(last.completion, last.input.resource)
          /\ FailureKind(last.completion) = "unknown-resource"
          /\ last.invoked = <<>>

\* Neither "missing" nor "nonexistent" is known, on a registry that has
\* another resource: the error is the one of the resource.
C22_Witness ==
    /\ LastIsSingle
    /\ last.input.resource = "missing"
    /\ LastAction = "nonexistent"
    /\ Registered("feature")
    /\ \A r \in DOMAIN defs : "nonexistent" \notin Declared(r)
    /\ IsUnknownResourceError(last.completion, "missing")

(***************************************************************************)
(* C25: each invoker keeps the actor it was built with.  For invokers made *)
(* by get(R).can(a1) and get(R).can(a2), in either order, from one result  *)
(* of get(R) or from two, every method call on the first passes a1 to the  *)
(* handler and every method call on the second passes a2, whichever        *)
(* invoker was made or called in between.                                  *)
(***************************************************************************)
C25_InvokerKeepsActor ==
    /\ \A s \in Slots :
          held[s].value.type = "invoker"
          => \A a \in DOMAIN held[s].value.fns :
                LET o == invokerMethod(held[s].value.fns[a], Undefined, Undefined, NextId)
                IN /\ Len(o.invoked) = 1
                   /\ o.invoked[1].args.props.actor = held[s].from.actor
    /\ last.op = "invoker.method"
       => /\ Len(last.invoked) = 1
          /\ last.invoked[1].args.props.actor = last.input.actor

\* The first slot holds the invoker of the user and the second the one of
\* the admin; manage on the first is refused, as it is for the user, and
\* manage on the second is allowed.
C25_Witness ==
    /\ held[1].value.type = "invoker"
    /\ held[2].value.type = "invoker"
    /\ held[1].from = [resource |-> "feature", actor |-> user]
    /\ held[2].from = [resource |-> "feature", actor |-> admin]
    /\ last.op = "invoker.method"
    /\ last.input.action = "manage"
    /\ last.input.actor = user
    /\ last.invoked[1].args.props.actor = user
    /\ last.completion = Return(False)
    /\ invokerMethod(held[2].value.fns["manage"], Undefined, Undefined, NextId).completion
          = Return(True)

(***************************************************************************)
(* C26: no decision is cached.  Every dispatch and every call of a         *)
(* function of an invoker or action object invokes the handler again, and  *)
(* gives what the handler answers at that moment: when the answer for the  *)
(* same arguments has changed since the call before, the call returns the  *)
(* new answer, also when both calls go through the same invoker or action  *)
(* object.                                                                 *)
(***************************************************************************)
\* What the handler of the latest dispatch answers now for its arguments.
CurrentAnswer ==
    HandlerBody(defs[last.input.resource].handlers[LastAction], LastCtx)

\* The latest call, if it is a dispatch to a declared action, invoked the
\* handler and gave its present answer.
DispatchAnswers ==
    (/\ LastIsDispatch
     /\ Registered(last.input.resource)
     /\ LastAction \in Declared(last.input.resource))
    => /\ Len(last.invoked) = 1
       /\ last.completion = CurrentAnswer

C26_NoCache == [][last' # last => DispatchAnswers']_vars

\* The use function of one action object was called twice, the setting
\* changed in between: the first call gave false and the second gives true.
C26_Witness ==
    /\ last.op = "actions.fn"
    /\ last.input.action = "use"
    /\ last.before.same = Return(False)
    /\ setting = True
    /\ Len(last.invoked) = 1
    /\ last.invoked[1].handler = "readsSetting"
    /\ last.completion = Return(True)

(***************************************************************************)
(* C27: a failed call leaves the permissions object fully usable.  After   *)
(* get or can has raised the unknown-resource or the unknown-action error, *)
(* or a handler has raised, the next call on the same object, a call on an *)
(* invoker or action object made earlier included, gives the result it     *)
(* gives on an object newly made from the same list, on which the failed   *)
(* call was never made.                                                    *)
(***************************************************************************)
\* The latest call made again, from get or can on, on a new object.
Replay(call, registry) ==
    CASE call.op = "can" ->
            can(registry, call.input.resource, call.input.actionOrCtx, call.input.ctx, 1)
      [] call.op = "get.can" ->
            IF get(registry, call.input.resource).completion.kind = "throw"
            THEN get(registry, call.input.resource)
            ELSE accessorCan(get(registry, call.input.resource).completion.value,
                             call.input.actor)
      [] call.op = "invoker.method" ->
            invokerMethod(accessorCan(get(registry, call.input.resource).completion.value,
                                      call.input.actor)
                             .completion.value.fns[call.input.action],
                          call.input.entity, call.input.attributes, 1)
      [] call.op = "actions.fn" ->
            actionFn(can(registry, call.input.resource, call.input.ctx, Undefined, 1)
                        .completion.value.fns[call.input.action], 1)

\* The call, if the call before it failed, gave what it gives anew.
SameAfterFailure(call, registry) ==
    (call.before.failure # "none" /\ call.op # "createPermissions")
    => /\ call.completion = Replay(call, registry).completion
       /\ call.invoked = Replay(call, registry).invoked

\* C27 as a property of steps: every call that follows a failed call gives
\* what it gives on a new object.  A step that makes a call leaves setting
\* as it is, so the replay reads the setting that the call read.
C27_UsableAfterFailure ==
    [][last' # last => SameAfterFailure(last', createPermissions(initialDefs'))]_vars

\* A handler raised in the call before (manage was called with null as
\* context), and manage on the invoker of the admin, made earlier, allows.
C27_Witness ==
    /\ last.before.failure = "handler"
    /\ last.op = "invoker.method"
    /\ last.input.action = "manage"
    /\ last.input.actor = admin
    /\ last.completion = Return(True)
    /\ Len(last.invoked) = 1

(***************************************************************************)
(* Several permissions objects.  The caller calls createPermissions more   *)
(* than once and calls get and can on each of the objects.  Here           *)
(* initialDefs and defs are sequences: the list given to each call of      *)
(* createPermissions and the registry of the object it returned, in the    *)
(* order of the calls.                                                     *)
(***************************************************************************)
MaxObjects == 2

\* A definition with no handler.
emptyDef == createPermissionDefinition("empty", EmptyMap)

ObjectLists == {Arr(<<postDef>>), Arr(<<asyncDef>>), Arr(<<commentDef, emptyDef>>)}

ObjectResources == {"post", "comment", "empty"}

ObjectActions == {"create", "edit", "nonexistent", "toString"}

ObjectContexts == {Obj([actor |-> user, entity |-> post, attributes |-> Undefined])}

InitObjects ==
    /\ initialDefs = <<>>
    /\ defs = <<>>
    /\ last = Record("start", NoInput, Outcome(Return(Undefined), <<>>))
    /\ held = Nothing
    /\ promises = EmptyMap
    /\ setting = False

\* createPermissions(list), once more
CreateObject(list) ==
    /\ Len(defs) < MaxObjects
    /\ initialDefs' = Append(initialDefs, list)
    /\ defs' = Append(defs, createPermissions(list))
    /\ last' = Record("createPermissions", [object |-> Len(defs) + 1],
                      Outcome(Return(api), <<>>))
    /\ UNCHANGED <<held, promises, setting>>

\* get(resource) on the k-th object
GetOn(k, resource) ==
    /\ k \in DOMAIN defs
    /\ Complete("get", [object |-> k, resource |-> resource], get(defs[k], resource))

\* can(resource, action, ctx) on the k-th object
CanOn(k, resource, action, ctx) ==
    /\ k \in DOMAIN defs
    /\ Complete("can", [object |-> k, resource |-> resource,
                        actionOrCtx |-> Str(action), ctx |-> ctx],
                can(defs[k], resource, Str(action), ctx, NextId))

NextObjects ==
    \/ \E list \in ObjectLists : CreateObject(list)
    \/ \E k \in 1..MaxObjects, r \in ObjectResources : GetOn(k, r)
    \/ \E k \in 1..MaxObjects, r \in ObjectResources, a \in ObjectActions,
          c \in ObjectContexts : CanOn(k, r, a, c)
    \/ \E n \in 1..MaxPromises : Settle(n)
    \/ \E n \in 1..MaxPromises : Await(n)

SpecObjects == InitObjects /\ [][NextObjects]_vars

\* The names that the list given for the k-th object registers.
OwnNames(k) == {Items(initialDefs[k])[i].resource : i \in DOMAIN Items(initialDefs[k])}

\* The definition that the k-th object's own list gives for a resource.
OwnDefinition(k, resource) ==
    Items(initialDefs[k])[LastIndexOf(Items(initialDefs[k]), resource)]

(***************************************************************************)
(* C28: two permissions objects made by separate calls of                  *)
(* createPermissions have separate registries.  The registry of each       *)
(* object holds the definitions of its own list and nothing else: a        *)
(* resource that only the other object's list names is unknown in this     *)
(* one, and a resource that both lists name dispatches, in each object, to *)
(* the handler of that object's own definition.                            *)
(***************************************************************************)
C28_SeparateRegistries ==
    /\ \A k \in DOMAIN defs :
          /\ LastWins(defs[k], Items(initialDefs[k]))
          /\ \A r \in ObjectResources \ OwnNames(k) :
                /\ IsUnknownResourceError(get(defs[k], r).completion, r)
                /\ \A a \in ObjectActions, c \in ObjectContexts :
                      IsUnknownResourceError(
                          can(defs[k], r, Str(a), c, NextId).completion, r)
          /\ \A r \in OwnNames(k) : \A a \in DOMAIN OwnDefinition(k, r).handlers :
                \A c \in ObjectContexts :
                   LET out == can(defs[k], r, Str(a), c, NextId) IN
                   /\ Len(out.invoked) = 1
                   /\ out.invoked[1].handler = OwnDefinition(k, r).handlers[a]
    /\ (/\ last.op \in {"get", "can"}
        /\ last.input.resource \notin OwnNames(last.input.object))
       => IsUnknownResourceError(last.completion, last.input.resource)
    /\ (/\ last.op = "get"
        /\ last.input.resource \in OwnNames(last.input.object))
       => /\ last.completion.kind = "return"
          /\ last.completion.value.def
                = OwnDefinition(last.input.object, last.input.resource)
    /\ (/\ last.op = "can"
        /\ last.input.resource \in OwnNames(last.input.object)
        /\ LastAction \in DOMAIN OwnDefinition(last.input.object,
                                               last.input.resource).handlers)
       => /\ Len(last.invoked) = 1
          /\ last.invoked[1].handler
                = OwnDefinition(last.input.object, last.input.resource).handlers[LastAction]

\* Two objects register "post" with different edit handlers; the call on the
\* second object ran the second object's handler, and the same call on the
\* first object runs the first object's.
C28_Witness ==
    /\ Len(defs) = 2
    /\ initialDefs = <<Arr(<<postDef>>), Arr(<<asyncDef>>)>>
    /\ last.op = "can"
    /\ last.input.object = 2
    /\ last.input.resource = "post"
    /\ LastAction = "edit"
    /\ Len(last.invoked) = 1
    /\ last.invoked[1].handler = "asyncRoleIsAdmin"
    /\ can(defs[1], "post", Str("edit"), last.input.ctx, NextId).invoked[1].handler
          = "adminOrAuthor"
    /\ IsUnknownResourceError(get(defs[1], "comment").completion, "comment")

\* The resources of the k-th object that are registered with no handler.
WithoutHandlers(k) == {r \in DOMAIN defs[k] : DOMAIN defs[k][r].handlers = {}}

(***************************************************************************)
(* C24: a resource registered with an empty handler mapping counts as      *)
(* registered.  get(R) succeeds and get(R).can(actor) is an invoker with   *)
(* no method, can(R, ctx) is an action object with no key, and             *)
(* can(R, A, ctx) fails for every action name A with the unknown-action    *)
(* error, never with the unknown-resource error.                           *)
(***************************************************************************)
C24_EmptyIsRegistered ==
    /\ \A k \in DOMAIN defs : \A r \in WithoutHandlers(k) :
          /\ get(defs[k], r).completion.kind = "return"
          /\ DOMAIN accessorCan(get(defs[k], r).completion.value, user).completion.value.fns
                = {}
          /\ \A c \in ObjectContexts :
                /\ can(defs[k], r, c, Undefined, NextId).completion.kind = "return"
                /\ DOMAIN can(defs[k], r, c, Undefined, NextId).completion.value.fns = {}
                /\ \A a \in ObjectActions :
                      IsUnknownActionError(
                          can(defs[k], r, Str(a), c, NextId).completion, a, r)
    /\ (/\ last.op = "get"
        /\ last.input.resource \in WithoutHandlers(last.input.object))
       => last.completion.kind = "return"
    /\ (/\ last.op = "can"
        /\ last.input.resource \in WithoutHandlers(last.input.object))
       => IsUnknownActionError(last.completion, LastAction, last.input.resource)

=============================================================================
